---- MODULE Spec2Model ----
(***************************************************************************)
(* Model of the media-server configuration orchestrator                    *)
(* (scripts/06_configure_apps_via_api.py) and of the webhook relay         *)
(* (apps/webhook-notifier/app.py).                                         *)
(*                                                                         *)
(* The orchestrator is a blocking, single-threaded program.  Every network *)
(* call is modelled as two steps: the request is put in flight by the step *)
(* that reaches the call, and the step that receives the response runs the *)
(* code up to the next network call.  The services are the environment:    *)
(* they answer each request with any of the outcomes the client code       *)
(* distinguishes.                                                          *)
(***************************************************************************)
EXTENDS Integers, Sequences, FiniteSets, TLC

VARIABLES
    store,      \* store[s][endpoint]: the resource collection held by service s
    created,    \* every resource a service created on an orchestrator POST, in order
    orch,       \* orch[p]: the local state of orchestrator process p
    active,     \* the orchestrator processes that exist
    hook        \* the webhook relay's request being handled and its observable effects

vars == <<store, created, orch, active, hook>>

----------------------------------------------------------------------------
(* Bounds of the model *)

\* a test harness invokes an ArrApp method directly at most this many times
MaxInvocations == 3
\* largest timeout, besides the default, handed to wait_for_ready by the harness
MaxTimeout == 7
\* operations each of two concurrent orchestrators invokes
MaxConcurrent == 1

(* Program constants *)

\* wait_for_ready(self, timeout: int = 60)
DEFAULT_TIMEOUT == 60
\* session.get(..., timeout=5) in wait_for_ready
PROBE_TIMEOUT == 5
\* time.sleep(2)
SLEEP_INTERVAL == 2
\* "http://rdtclient:6500"
RDT_PORT == 6500

Procs == {1, 2}

----------------------------------------------------------------------------
(* The services and the resources the orchestrator wants present *)

Services == {"Sonarr", "Radarr", "Prowlarr"}

\* main() calls configure_sonarr, configure_radarr, configure_prowlarr in this order
Order == <<"Sonarr", "Radarr", "Prowlarr">>

\* the --app choices
Apps == {"sonarr", "radarr", "prowlarr", "all"}

\* args.app in ['sonarr', 'all'] etc.
Selected(app, s) ==
    \/ app = "all"
    \/ app = "sonarr" /\ s = "Sonarr"
    \/ app = "radarr" /\ s = "Radarr"
    \/ app = "prowlarr" /\ s = "Prowlarr"

Endpoints == {"downloadclient", "rootfolder", "remotePathMapping"}

OpNames == <<"add_download_client", "add_root_folder", "add_remote_path_mapping">>

EndpointOf(op) ==
    CASE op = "add_download_client" -> "downloadclient"
      [] op = "add_root_folder" -> "rootfolder"
      [] op = "add_remote_path_mapping" -> "remotePathMapping"

\* the rdt_url argument "http://rdtclient:6500", as scheme, host and port
rdt_url == [scheme |-> "http://", host |-> "rdtclient", port |-> RDT_PORT]

\* the arguments configure_sonarr / configure_radarr pass to the three operations
OpArgs(s) ==
    [rdt_url |-> rdt_url,
     category |-> IF s = "Sonarr" THEN "sonarr" ELSE "radarr",
     path |-> IF s = "Sonarr" THEN "/tv" ELSE "/movies",
     host |-> "rdtclient",
     remote_path |-> "/data/downloads",
     local_path |-> "/data/downloads"]

\* client_config of add_download_client (the fields the services key on)
client_config(a) ==
    [name |-> "RdtClient",
     host |-> a.rdt_url.host,
     port |-> a.rdt_url.port,
     category |-> a.category,
     implementation |-> "QBittorrent"]

\* mapping_config of add_remote_path_mapping
mapping_config(a) ==
    [host |-> a.host, remotePath |-> a.remote_path, localPath |-> a.local_path]

\* Body with the root folder's path taken from the wrong argument
Body_wrong_path(op, a) ==
    CASE op = "add_download_client" -> client_config(a)
      [] op = "add_root_folder" -> [path |-> a.local_path]
      [] op = "add_remote_path_mapping" -> mapping_config(a)

\* the body of the creation POST of each operation
Body(op, a) ==
    CASE op = "add_download_client" -> client_config(a)
      [] op = "add_root_folder" -> [path |-> a.path]
      [] op = "add_remote_path_mapping" -> mapping_config(a)

\* the equality key of an entry of each collection
KeyOf(endpoint, e) ==
    CASE endpoint = "downloadclient" -> e.name
      [] endpoint = "rootfolder" -> e.path
      [] endpoint = "remotePathMapping" -> e.host

\* the key each operation looks for
TargetKey(op, a) ==
    CASE op = "add_download_client" -> "RdtClient"
      [] op = "add_root_folder" -> a.path
      [] op = "add_remote_path_mapping" -> a.host

----------------------------------------------------------------------------
(* The API client: get / post results as the callers see them *)

\* None: the request raised (network error, timeout, non-2xx)
None == [kind |-> "none"]

\* a parsed JSON value: "empty" is [] or {}, which Python treats as false
Json(v) == IF v = <<>> THEN [kind |-> "empty"] ELSE [kind |-> "data", data |-> v]

\* Python truthiness of what get / post returned: `if clients:`, `if result:`
Truthy(r) == r.kind = "data"

\* ArrApp.get: the parsed collection, or None when the request failed
get(coll, outcome) == IF outcome = "ok" THEN Json(coll) ELSE None

\* ArrApp.post: the parsed response body, or None when the request failed.
\* A service answers a successful creation with the created object, or with
\* an empty body.
post(body, outcome) ==
    CASE outcome = "created" -> [kind |-> "data", data |-> body]
      [] outcome = "created_empty" -> [kind |-> "empty"]
      [] outcome = "failed" -> None

\* a scan that looks at the first entry of the collection only
Found_first_only(op, r, a) ==
    /\ Truthy(r)
    /\ KeyOf(EndpointOf(op), r.data[1]) = TargetKey(op, a)

\* the scan of each operation: for x in xs: if x.get(key) == target: return True
Found(op, r, a) ==
    /\ Truthy(r)
    /\ \E i \in 1..Len(r.data) :
          KeyOf(EndpointOf(op), r.data[i]) = TargetKey(op, a)

----------------------------------------------------------------------------
(* The local state of one orchestrator process *)

Str(b) == IF b THEN "true" ELSE "false"

Request(s, m, e, b) == [svc |-> s, method |-> m, endpoint |-> e, body |-> b]

\* GET {url}/api/v3/system/status
ProbeRequest(s) == Request(s, "GET", "system/status", None)

\* "none": not looked up, not returned yet
Unset == [s \in Services |-> "none"]

\* a process that has not started: no run, no call
Idle ==
    [pc |-> "off",          \* off, main, probe, sleep, get, post, exited
     caller |-> "none",     \* who called the ArrApp method: main or harness
     ninv |-> 0,            \* direct invocations made by the harness
     app |-> "all",         \* args.app
     dry_run |-> FALSE,     \* args.dry_run
     idx |-> 1,             \* the position of main() in Order
     success |-> TRUE,      \* main's success flag
     exitcode |-> -1,       \* the exit status of the last run, -1 before any exit
     name |-> "none",       \* self.name of the ArrApp in use
     timeout |-> 0,         \* wait_for_ready's timeout argument
     elapsed |-> 0,         \* time.time() - start
     nprobes |-> 0,         \* probes sent by the current wait_for_ready call
     n200 |-> 0,            \* probes of the current call answered with HTTP 200
     last |-> "none",       \* the outcome of the last probe of the current call
     ready |-> "none",      \* what the last wait_for_ready call returned
     op |-> "none",         \* the ensure-present operation in progress or last returned
     opret |-> "none",      \* what it returned
     pre |-> <<>>,          \* the service's collection when the operation was called
     getres |-> "none",     \* how the operation's GET ended: ok, failed
     existing |-> None,     \* the local clients / folders / mappings: what GET returned
     postres |-> "none",    \* how its POST ended: created, created_empty, failed
     inflight |-> {},       \* requests sent and not yet answered
     sent |-> <<>>,         \* the collection requests (GET/POST/PUT) sent by the
                            \* current configure_* or harness call, in order
     probed |-> {},         \* the services sent at least one readiness probe
     attempts |-> <<>>,     \* the services configure_* was called for, in order
     key |-> Unset,         \* per service: what env.get returned for its API key
     readyof |-> Unset,     \* per service: what wait_for_ready returned
     result |-> Unset,      \* per service: what configure_* returned
     path |-> Unset,        \* per service: the return statement configure_* took
     opres |-> <<>>,        \* the ensure-present calls of the current configure_*
                            \* or harness call, with their results
     opfailed |-> FALSE]    \* some ensure-present call of the run returned False

----------------------------------------------------------------------------
(* main(): collecting the result of configure_* and moving to the next one *)

\* main_collect giving up on the first failure: the other services are not tried
main_collect_stop_on_failure(l, r) ==
    [l EXCEPT !.success = IF r THEN @ ELSE FALSE,
              !.idx = IF r THEN @ + 1 ELSE 4,
              !.pc = "main",
              !.caller = "none",
              !.name = "none",
              !.op = "none", !.opret = "none", !.pre = <<>>, !.existing = None,
              !.getres = "none", !.postres = "none"]

\* if not configure_x(env, args.dry_run): success = False
main_collect(l, r) ==
    [l EXCEPT !.success = IF r THEN @ ELSE FALSE,
              !.idx = @ + 1,
              !.pc = "main",
              !.caller = "none",
              !.name = "none",
              !.op = "none", !.opret = "none", !.pre = <<>>, !.existing = None,
              !.getres = "none", !.postres = "none"]

\* a return statement of configure_sonarr / configure_radarr / configure_prowlarr
configure_return(l, how, r) ==
    main_collect([l EXCEPT !.path[l.name] = how, !.result[l.name] = Str(r)], r)

(* The three ensure-present operations *)

\* the first statement of each operation: self.get(<endpoint>) is sent
ensure_call(l, op, coll) ==
    LET req == Request(l.name, "GET", EndpointOf(op), None)
    IN  [l EXCEPT !.pc = "get",
                  !.op = op,
                  !.opret = "none",
                  !.pre = coll,
                  !.getres = "none",
                  !.existing = None,
                  !.postres = "none",
                  !.inflight = @ \cup {req},
                  !.sent = Append(@, req)]

\* configure_next returning False as soon as an operation failed
configure_next_stop_on_failure(l, st) ==
    IF l.opret = "false" THEN configure_return(l, "configured", FALSE)
    ELSE CASE l.op = "add_download_client" ->
                 ensure_call(l, "add_root_folder", st[l.name]["rootfolder"])
           [] l.op = "add_root_folder" ->
                 ensure_call(l, "add_remote_path_mapping", st[l.name]["remotePathMapping"])
           [] l.op = "add_remote_path_mapping" ->
                 configure_return(l, "configured", TRUE)

\* the statements of configure_sonarr / configure_radarr after an operation
\* returned: its result is discarded and the next operation is called
configure_next(l, st) ==
    CASE l.op = "add_download_client" ->
            ensure_call(l, "add_root_folder", st[l.name]["rootfolder"])
      [] l.op = "add_root_folder" ->
            ensure_call(l, "add_remote_path_mapping", st[l.name]["remotePathMapping"])
      [] l.op = "add_remote_path_mapping" ->
            configure_return(l, "configured", TRUE)

\* a return statement of an ensure-present operation
ensure_return(l, r, st) ==
    LET m == [l EXCEPT !.opret = Str(r),
                       !.opres = Append(@, [svc |-> l.name, op |-> l.op, ret |-> r]),
                       !.opfailed = @ \/ ~r]
    IN  IF l.caller = "main"
        THEN configure_next(m, st)
        ELSE [m EXCEPT !.pc = "off", !.caller = "none"]

\* ensure_after_get giving up when the fetch failed: return False, no POST
ensure_after_get_escalate(l, r, st) ==
    IF r = None THEN ensure_return(l, FALSE, st)
    ELSE IF Found(l.op, r, OpArgs(l.name))
    THEN ensure_return(l, TRUE, st)
    ELSE LET req == Request(l.name, "POST", EndpointOf(l.op), Body(l.op, OpArgs(l.name)))
         IN  [l EXCEPT !.pc = "post",
                       !.inflight = @ \cup {req},
                       !.sent = Append(@, req)]

\* the operation after self.get returned r: scan, then return True or send the POST
\* ensure_after_get updating the entry it found: self.put(<endpoint>, body)
ensure_after_get_put_found(l, r, st) ==
    LET body == Body(l.op, OpArgs(l.name))
    IN  IF Found(l.op, r, OpArgs(l.name))
        THEN LET req == Request(l.name, "PUT", EndpointOf(l.op), body)
             IN  [l EXCEPT !.pc = "post",
                           !.inflight = @ \cup {req},
                           !.sent = Append(@, req)]
        ELSE LET req == Request(l.name, "POST", EndpointOf(l.op), body)
             IN  [l EXCEPT !.pc = "post",
                           !.inflight = @ \cup {req},
                           !.sent = Append(@, req)]

ensure_after_get(l, r, st) ==
    IF Found(l.op, r, OpArgs(l.name))
    THEN ensure_return(l, TRUE, st)
    ELSE LET req == Request(l.name, "POST", EndpointOf(l.op), Body(l.op, OpArgs(l.name)))
         IN  [l EXCEPT !.pc = "post",
                       !.inflight = @ \cup {req},
                       !.sent = Append(@, req)]

\* the operation after self.post returned r: if result: return True; return False
ensure_after_post(l, r, st) == ensure_return(l, Truthy(r), st)

----------------------------------------------------------------------------
(* configure_sonarr / configure_radarr / configure_prowlarr and wait_for_ready *)

\* the values env.get('<APP>_API_KEY') can have: None (no such line in .env),
\* the empty string (a line "KEY=") or a key
KeyValues == {"None", "", "0123456789abcdef"}

\* NoApiKey testing for the empty string only: None passes as a key
NoApiKey_empty_only(k) == k = ""

\* `if not api_key`
NoApiKey(k) == k = "None" \/ k = ""

\* configure_after_ready without the `if dry_run` return
configure_after_ready_no_dry_run(l, r, st) ==
    LET m == [l EXCEPT !.readyof[l.name] = Str(r),
                       !.timeout = 0, !.elapsed = 0, !.nprobes = 0,
                       !.n200 = 0, !.last = "none"]
    IN  IF ~r THEN configure_return(m, "notready", FALSE)
        ELSE IF m.name = "Prowlarr" THEN configure_return(m, "manual", TRUE)
        ELSE ensure_call(m, "add_download_client", st[m.name]["downloadclient"])

\* the statements of configure_* after wait_for_ready returned r
configure_after_ready(l, r, st) ==
    LET m == [l EXCEPT !.readyof[l.name] = Str(r),
                       !.timeout = 0, !.elapsed = 0, !.nprobes = 0,
                       !.n200 = 0, !.last = "none"]
    IN  IF ~r THEN configure_return(m, "notready", FALSE)
        ELSE IF m.dry_run THEN configure_return(m, "dryrun", TRUE)
        ELSE IF m.name = "Prowlarr" THEN configure_return(m, "manual", TRUE)
        ELSE ensure_call(m, "add_download_client", st[m.name]["downloadclient"])

\* a return statement of wait_for_ready
wait_return(l, r, st) ==
    LET m == [l EXCEPT !.ready = Str(r)]
    IN  IF l.caller = "main"
        THEN configure_after_ready(m, r, st)
        ELSE [m EXCEPT !.pc = "off", !.caller = "none"]

\* the loop condition with <= in place of <
wait_loop_inclusive(l, st) ==
    IF l.elapsed <= l.timeout
    THEN [l EXCEPT !.pc = "probe",
                   !.nprobes = @ + 1,
                   !.inflight = @ \cup {ProbeRequest(l.name)},
                   !.probed = @ \cup {l.name}]
    ELSE wait_return(l, FALSE, st)

\* while time.time() - start < timeout: send the next probe; else return False
wait_loop(l, st) ==
    IF l.elapsed < l.timeout
    THEN [l EXCEPT !.pc = "probe",
                   !.nprobes = @ + 1,
                   !.inflight = @ \cup {ProbeRequest(l.name)},
                   !.probed = @ \cup {l.name}]
    ELSE wait_return(l, FALSE, st)

\* wait_for_ready(timeout): start = time.time(), then the loop
wait_for_ready(l, timeout, st) ==
    wait_loop([l EXCEPT !.timeout = timeout, !.elapsed = 0, !.nprobes = 0,
                        !.n200 = 0, !.last = "none", !.ready = "none"], st)

\* IsReady accepting every answer: `if resp.status_code:`
IsReady_any_status(status) == status # "exception"

\* if resp.status_code == 200
IsReady(status) == status = "200"

\* the probe came back after d time units: return True on 200, else go to sleep
wait_after_probe(l, status, d, st) ==
    LET m == [l EXCEPT !.elapsed = @ + d,
                       !.last = status,
                       !.n200 = IF status = "200" THEN @ + 1 ELSE @]
    IN  IF status # "exception" /\ IsReady(status)
        THEN wait_return(m, TRUE, st)
        ELSE [m EXCEPT !.pc = "sleep"]

\* time.sleep(2) is over: back to the loop condition
wait_after_sleep(l, st) ==
    wait_loop([l EXCEPT !.elapsed = @ + SLEEP_INTERVAL], st)

\* configure_*(env, dry_run) up to its first network call
configure(l, s, key, st) ==
    LET m == [l EXCEPT !.name = s,
                       !.caller = "main",
                       !.attempts = Append(@, s),
                       !.sent = <<>>,
                       !.opres = <<>>,
                       !.key[s] = key]
    IN  IF NoApiKey(key)
        THEN configure_return(m, "nokey", FALSE)
        ELSE wait_for_ready(m, DEFAULT_TIMEOUT, st)

----------------------------------------------------------------------------
(* The services *)

\* the collections a service may hold before the orchestrator first runs
StaleClient ==
    [name |-> "RdtClient", host |-> "oldhost", port |-> RDT_PORT,
     category |-> "legacy", implementation |-> "QBittorrent"]
OtherClient ==
    [name |-> "Transmission", host |-> "seedbox", port |-> RDT_PORT,
     category |-> "tv", implementation |-> "Transmission"]
StaleMapping == [host |-> "rdtclient", remotePath |-> "/old", localPath |-> "/mnt/old"]
OtherMapping == [host |-> "seedbox", remotePath |-> "/srv", localPath |-> "/data/srv"]

InitialCollections ==
    [downloadclient : {<<>>, <<OtherClient>>, <<StaleClient>>, <<OtherClient, StaleClient>>},
     rootfolder : {<<>>, <<[path |-> "/tv"]>>, <<[path |-> "/movies"]>>,
                   <<[path |-> "/movies"], [path |-> "/tv"]>>},
     remotePathMapping : {<<>>, <<OtherMapping>>, <<StaleMapping>>,
                          <<OtherMapping, StaleMapping>>}]

\* POST /api/v3/<endpoint> at a service: on success the body is appended to the
\* collection; the services do not refuse a second entry with the same key
ServicePost(st, req, outcome) ==
    IF outcome = "failed"
    THEN st
    ELSE [st EXCEPT ![req.svc][req.endpoint] = Append(@, req.body)]

ServiceCreated(cr, req, outcome) ==
    IF outcome = "failed"
    THEN cr
    ELSE Append(cr, [svc |-> req.svc, endpoint |-> req.endpoint,
                     key |-> KeyOf(req.endpoint, req.body)])

ProbeOutcomes == {"200", "503", "exception"}
\* how long a probe may take: anything up to its timeout.  Under main() every
\* probe is taken to last the whole per-probe timeout.
ProbeDurations(l) ==
    IF l.caller = "main" THEN {PROBE_TIMEOUT} ELSE 0..PROBE_TIMEOUT
GetOutcomes == {"ok", "failed"}
PostOutcomes == {"created", "created_empty", "failed"}


----------------------------------------------------------------------------
(* Actions of an orchestrator process *)

\* the response to req has arrived
answered(l, req) == [l EXCEPT !.inflight = @ \ {req}]

Frame == UNCHANGED <<active, hook>>

\* main() from its start to the first configure_*: parse_args and load_env.
\* load_env exits with status 1 when there is no .env file.  A process runs
\* main() once; what earlier runs left behind is in the services' collections.
main_start(p) ==
    /\ p \in active
    /\ orch[p].pc = "off"
    /\ orch[p].ninv = 0
    /\ \E a \in Apps, d \in BOOLEAN, envfile \in BOOLEAN :
          orch' = [orch EXCEPT ![p] =
                     IF envfile
                     THEN [Idle EXCEPT !.pc = "main", !.app = a, !.dry_run = d]
                     ELSE [Idle EXCEPT !.pc = "exited", !.app = a, !.dry_run = d,
                                       !.path = [s \in Services |-> "noenv"],
                                       !.exitcode = 1]]
    /\ UNCHANGED <<store, created>>
    /\ Frame

\* main(): `if args.app in [...]` is false for the service at idx
main_skip(p) ==
    /\ p \in active
    /\ orch[p].pc = "main"
    /\ orch[p].idx <= Len(Order)
    /\ ~Selected(orch[p].app, Order[orch[p].idx])
    /\ orch' = [orch EXCEPT ![p].idx = @ + 1]
    /\ UNCHANGED <<store, created>>
    /\ Frame

\* main(): the service at idx is selected and its configure_* is called
main_configure(p) ==
    /\ p \in active
    /\ orch[p].pc = "main"
    /\ orch[p].idx <= Len(Order)
    /\ Selected(orch[p].app, Order[orch[p].idx])
    /\ \E key \in KeyValues :
          orch' = [orch EXCEPT ![p] = configure(@, Order[orch[p].idx], key, store)]
    /\ UNCHANGED <<store, created>>
    /\ Frame

\* the exit status main() ends with: sys.exit(1) unless success
ExitStatus(success) == IF success THEN 0 ELSE 1

\* main() after the last service
main_exit(p) ==
    /\ p \in active
    /\ orch[p].pc = "main"
    /\ orch[p].idx > Len(Order)
    /\ orch' = [orch EXCEPT ![p].pc = "exited",
                            ![p].exitcode = ExitStatus(orch[p].success)]
    /\ UNCHANGED <<store, created>>
    /\ Frame

\* the status probe of wait_for_ready is answered (or raises) after d time units
probe_response(p) ==
    /\ p \in active
    /\ orch[p].pc = "probe"
    /\ \E req \in orch[p].inflight, status \in ProbeOutcomes, d \in ProbeDurations(orch[p]) :
          orch' = [orch EXCEPT ![p] = wait_after_probe(answered(@, req), status, d, store)]
    /\ UNCHANGED <<store, created>>
    /\ Frame

\* time.sleep(2) returns
sleep_done(p) ==
    /\ p \in active
    /\ orch[p].pc = "sleep"
    /\ orch' = [orch EXCEPT ![p] = wait_after_sleep(@, store)]
    /\ UNCHANGED <<store, created>>
    /\ Frame

\* self.get(<endpoint>) of an ensure-present operation returns
get_response(p) ==
    /\ p \in active
    /\ orch[p].pc = "get"
    /\ \E req \in orch[p].inflight, outcome \in GetOutcomes :
          LET r == get(store[req.svc][req.endpoint], outcome)
          IN  orch' = [orch EXCEPT ![p] =
                         ensure_after_get([answered(@, req) EXCEPT !.getres = outcome,
                                                                   !.existing = r],
                                          r, store)]
    /\ UNCHANGED <<store, created>>
    /\ Frame

\* self.post(<endpoint>, body) of an ensure-present operation returns
post_response(p) ==
    /\ p \in active
    /\ orch[p].pc = "post"
    /\ \E req \in orch[p].inflight, outcome \in PostOutcomes :
          /\ store' = ServicePost(store, req, outcome)
          /\ created' = ServiceCreated(created, req, outcome)
          /\ orch' = [orch EXCEPT ![p] =
                        ensure_after_post([answered(@, req) EXCEPT !.postres = outcome],
                                          post(req.body, outcome), store')]
    /\ Frame

(* A harness calling the methods of ArrApp directly *)

\* the local state before a direct call: the logs of the previous call are dropped
Fresh(l, s) ==
    [Idle EXCEPT !.ninv = l.ninv + 1, !.name = s, !.caller = "harness"]

\* ArrApp(s, ...).add_download_client / add_root_folder / add_remote_path_mapping
invoke_ensure(p) ==
    /\ p \in active
    /\ orch[p].pc = "off"
    /\ orch[p].ninv < MaxInvocations
    /\ \E s \in {"Sonarr", "Radarr"}, i \in 1..Len(OpNames) :
          orch' = [orch EXCEPT ![p] =
                     ensure_call(Fresh(@, s), OpNames[i],
                                 store[s][EndpointOf(OpNames[i])])]
    /\ UNCHANGED <<store, created>>
    /\ Frame

Timeouts == (-1..MaxTimeout) \cup {DEFAULT_TIMEOUT}

\* ArrApp(s, ...).wait_for_ready(t)
invoke_wait(p) ==
    /\ p \in active
    /\ orch[p].pc = "off"
    /\ orch[p].ninv < MaxInvocations
    /\ \E s \in Services, t \in Timeouts :
          orch' = [orch EXCEPT ![p] = wait_for_ready(Fresh(@, s), t, store)]
    /\ UNCHANGED <<store, created>>
    /\ Frame

----------------------------------------------------------------------------
(* The webhook relay: WebhookHandler.do_POST *)

\* JSON values as json.loads returns them
JNull == [t |-> "null"]
JStr(x) == [t |-> "str", s |-> x]
JList == [t |-> "list"]
JObj(f) == [t |-> "obj", f |-> f]

\* what a "series" or "movie" member may be
Titles == {JNull, JStr(""), JStr("Show A"), JStr("Film B")}
Holders ==
    {JNull, JStr("Show A"), JObj([k \in {} |-> JNull])}
        \cup {JObj([k \in {"title"} |-> t]) : t \in Titles}

\* the JSON objects a request may carry: each of the members eventType, series
\* and movie is present or not
Members(keys) ==
    {f \in [keys -> Holders \cup {JStr("Download")}] :
        /\ "eventType" \in keys => f["eventType"] = JStr("Download")
        /\ \A k \in keys \ {"eventType"} : f[k] \in Holders}

Payloads ==
    {JNull, JList, JStr("Download")}
        \cup {JObj(f) : f \in UNION {Members(ks) : ks \in SUBSET {"eventType", "series", "movie"}}}

\* a request body: text that json.loads accepts, giving the value, or rejects
Bodies == {[wellformed |-> FALSE]} \cup {[wellformed |-> TRUE, value |-> v] : v \in Payloads}

\* an exception propagating out of do_POST
Fault == [t |-> "fault"]

\* json.loads(body)
loads(body) == IF body.wellformed THEN body.value ELSE Fault

\* d.get(key, default) for a value d: AttributeError unless d is a dict
dict_get(d, key, default) ==
    IF d.t # "obj" THEN Fault
    ELSE IF key \in DOMAIN d.f THEN d.f[key] ELSE default

\* Python truthiness of a JSON value
truthy(v) ==
    CASE v.t = "null" -> FALSE
      [] v.t = "str" -> v.s # ""
      [] v.t = "list" -> FALSE
      [] v.t = "obj" -> DOMAIN v.f # {}

EmptyDict == JObj([k \in {} |-> JNull])

\* data.get('series', {}).get('title') or data.get('movie', {}).get('title', 'Unknown')
title_of(data) ==
    LET sv == dict_get(data, "series", EmptyDict)
        st == IF sv = Fault THEN Fault ELSE dict_get(sv, "title", JNull)
        mv == dict_get(data, "movie", EmptyDict)
        mt == IF mv = Fault THEN Fault ELSE dict_get(mv, "title", JStr("Unknown"))
    IN  IF st = Fault THEN Fault
        ELSE IF truthy(st) THEN st
        ELSE mt

\* f"{series}": the text a value is interpolated as
format(v) ==
    CASE v.t = "str" -> v.s
      [] v.t = "null" -> "None"
      [] OTHER -> "<repr>"

HookIdle == [pc |-> "idle", body |-> [wellformed |-> FALSE], status |-> 0,
             alerts |-> <<>>, rc |-> 0]

\* the relay after do_POST ran on a request body, os.system returning rc:
\* status 0 stands for the connection closed with no response written
do_POST_result(body, rc) ==
    LET data == loads(body)
        event_type == IF data = Fault THEN Fault
                      ELSE dict_get(data, "eventType", JStr("Unknown"))
        series == IF event_type = Fault THEN Fault ELSE title_of(data)
    IN  IF series = Fault
        THEN [pc |-> "faulted", body |-> body, status |-> 0, alerts |-> <<>>, rc |-> 0]
        ELSE [pc |-> "responded", body |-> body, status |-> 200,
              alerts |-> <<[level |-> "info", subject |-> "Media Ready",
                            message |-> <<format(series), " is ready to watch!">>]>>,
              rc |-> rc]

\* one inbound POST handled from start to end
do_POST ==
    /\ \E body \in Bodies, rc \in {0, 1} : hook' = do_POST_result(body, rc)
    /\ UNCHANGED <<store, created, orch, active>>

----------------------------------------------------------------------------
(* Specifications *)

InitServices ==
    /\ \E c \in InitialCollections : store = [s \in Services |-> c]
    /\ created = <<>>

Init ==
    /\ InitServices
    /\ orch = [p \in Procs |-> Idle]
    /\ active = {1}
    /\ hook = HookIdle

\* one orchestrator process running main()
Next ==
    \E p \in Procs :
        \/ main_start(p)
        \/ main_skip(p)
        \/ main_configure(p)
        \/ main_exit(p)
        \/ probe_response(p)
        \/ sleep_done(p)
        \/ get_response(p)
        \/ post_response(p)

Spec == Init /\ [][Next]_vars

\* one process invoking the ensure-present operations repeatedly
NextOps ==
    \E p \in Procs :
        \/ invoke_ensure(p)
        \/ get_response(p)
        \/ post_response(p)

SpecOps == Init /\ [][NextOps]_vars

\* one process invoking wait_for_ready
NextReady ==
    \E p \in Procs :
        \/ invoke_wait(p)
        \/ probe_response(p)
        \/ sleep_done(p)

\* wait_for_ready reads no collection: the services start empty here
InitReady ==
    /\ store = [s \in Services |-> [e \in Endpoints |-> <<>>]]
    /\ created = <<>>
    /\ orch = [p \in Procs |-> Idle]
    /\ active = {1}
    /\ hook = HookIdle

SpecReady == InitReady /\ [][NextReady]_vars

\* wait_for_ready with its blocking calls returning: session.get(..., timeout=5)
\* comes back or raises, time.sleep(2) comes back
SpecReadyFair ==
    /\ SpecReady
    /\ \A p \in Procs : WF_vars(probe_response(p)) /\ WF_vars(sleep_done(p))

\* two orchestrator processes at once against the same services: nothing in
\* the script takes a lock, so their requests are answered in any order.  Each
\* collection starts empty or with both of its foreign entries.
InitConc ==
    /\ \E c \in InitialCollections :
          /\ \A e \in Endpoints : Len(c[e]) # 1
          /\ store = [s \in Services |-> c]
    /\ created = <<>>
    /\ orch = [p \in Procs |-> Idle]
    /\ active = Procs
    /\ hook = HookIdle

NextConc ==
    \E p \in Procs :
        \/ (orch[p].ninv < MaxConcurrent /\ invoke_ensure(p))
        \/ get_response(p)
        \/ post_response(p)

SpecConc == InitConc /\ [][NextConc]_vars

\* the relay handling requests, one at a time
SpecHook == InitReady /\ [][do_POST]_vars

----------------------------------------------------------------------------
(* Properties *)

\* the POST requests of a request log
Posts(log) == SelectSeq(log, LAMBDA r : r.method = "POST")

\* a direct call of operation op has returned in local state l
Returned(l, op) == l.pc = "off" /\ l.op = op /\ l.opret # "none"

\* C1: across repeated sequential invocations of the ensure-present operations
\* by one orchestrator, at most one resource per equality key is ever created
\* at a service, whatever the outcomes of the GET and POST calls.
C1_AtMostOneCreatedPerKey ==
    \A i, j \in 1..Len(created) : created[i] = created[j] => i = j

\* C2: when the download-client collection of the service already holds an entry
\* named RdtClient, add_download_client sends no POST and returns True.
C2_PresentClientNoPost ==
    \A p \in active :
        LET l == orch[p]
        IN  (Returned(l, "add_download_client")
                /\ \E i \in 1..Len(l.pre) : l.pre[i].name = "RdtClient")
            => (Posts(l.sent) = <<>> /\ l.opret = "true")

\* the path configure_sonarr / configure_radarr hand to add_root_folder
TargetPath(s) == IF s = "Sonarr" THEN "/tv" ELSE "/movies"

\* C3: when the root-folder collection of the service holds no entry whose path
\* is the target path, one invocation of add_root_folder sends exactly one
\* POST, to rootfolder, whose body is exactly {"path": <target path>}.
C3_AbsentFolderOnePost ==
    \A p \in active :
        LET l == orch[p]
        IN  (l.op = "add_root_folder"
                /\ \A i \in 1..Len(l.pre) : l.pre[i].path # TargetPath(l.name))
            => /\ Len(Posts(l.sent)) <= 1
               /\ l.pc = "get" => Posts(l.sent) = <<>>
               /\ (l.pc = "post" \/ Returned(l, "add_root_folder")) =>
                     Posts(l.sent) =
                        <<[svc |-> l.name, method |-> "POST", endpoint |-> "rootfolder",
                           body |-> [path |-> TargetPath(l.name)]]>>

\* C3 witness: add_root_folder has returned True for a service whose collection
\* held only a folder with another path, a POST having been sent.
C3_Witness ==
    LET l == orch[1]
    IN  /\ Returned(l, "add_root_folder")
        /\ l.name = "Sonarr"
        /\ l.pre = <<[path |-> "/movies"]>>
        /\ l.opret = "true"
        /\ Len(Posts(l.sent)) = 1
        /\ store["Sonarr"]["rootfolder"] = <<[path |-> "/movies"], [path |-> "/tv"]>>

\* C4: when the remote-path-mapping collection holds an entry whose host is the
\* target host, add_remote_path_mapping sends no POST, leaves the collection as
\* it was and returns True.
C4_PresentHostNoAction ==
    \A p \in active :
        LET l == orch[p]
        IN  (Returned(l, "add_remote_path_mapping")
                /\ \E i \in 1..Len(l.pre) : l.pre[i].host = "rdtclient")
            => /\ Posts(l.sent) = <<>>
               /\ store[l.name]["remotePathMapping"] = l.pre
               /\ l.opret = "true"

\* the run of main() in local state l got past load_env and has ended
Exited(l) == l.pc = "exited" /\ \A s \in Services : l.path[s] # "noenv"

\* C5: the exit status of a run is 1 if the configuration step of a selected
\* service failed, a failed ensure-present operation included, and 0 otherwise.
C5_ExitStatusReflectsFailures ==
    \A p \in active :
        LET l == orch[p]
        IN  Exited(l) =>
               l.exitcode = IF l.opfailed \/ \E s \in Services : l.result[s] = "false"
                            THEN 1 ELSE 0

\* C6 as stated: in dry-run mode every selected service with an API key is
\* reported as successful (and no POST or PUT is sent).
C6_DryRunAlwaysSucceeds ==
    \A p \in active :
        LET l == orch[p]
        IN  l.dry_run =>
               /\ \A i \in 1..Len(l.sent) : l.sent[i].method \notin {"POST", "PUT"}
               /\ \A s \in Services :
                     (~NoApiKey(l.key[s]) /\ l.result[s] # "none") => l.result[s] = "true"

\* C6, amended: in dry-run mode, for every selected service that has an API key,
\* the run sends nothing but readiness probes (no POST, no PUT, no collection
\* GET), no resource is created, and the service is reported as successful
\* exactly when its readiness probing succeeded.
C6_DryRunProbesOnly ==
    \A p \in active :
        LET l == orch[p]
        IN  l.dry_run =>
               /\ l.sent = <<>>
               /\ \A req \in l.inflight :
                     req.method = "GET" /\ req.endpoint = "system/status"
               /\ created = <<>>
               /\ \A s \in Services :
                     (l.key[s] \notin {"none", "None", ""} /\ l.result[s] # "none") =>
                        /\ l.readyof[s] # "none"
                        /\ l.result[s] = l.readyof[s]
                        /\ s \in l.probed

\* C6 witness: a dry run of all services has ended, one service reported
\* successful after its probe was answered, one reported failed on a timeout.
C6_Witness ==
    LET l == orch[1]
    IN  /\ Exited(l) /\ l.dry_run /\ l.app = "all"
        /\ l.result["Sonarr"] = "true" /\ l.readyof["Sonarr"] = "true"
        /\ l.result["Radarr"] = "false" /\ l.readyof["Radarr"] = "false"
        /\ l.key["Radarr"] = "0123456789abcdef"
        /\ l.probed = Services

\* C7: a selected service whose API key is absent is sent no request at all, one
\* whose readiness probing timed out is sent no collection GET and no POST;
\* either way configure_* returns False for it and the run exits with status 1.
C7_SkippedServices ==
    \A p \in active :
        LET l == orch[p]
        IN  \A s \in Services :
               /\ (l.key[s] = "None") =>
                     /\ l.result[s] = "false"
                     /\ s \notin l.probed
                     /\ \A req \in l.inflight : req.svc # s
                     /\ \A i \in 1..Len(l.sent) : l.sent[i].svc # s
               /\ (l.readyof[s] = "false") =>
                     /\ l.result[s] = "false"
                     /\ \A req \in l.inflight : req.svc # s
                     /\ \A i \in 1..Len(l.sent) : l.sent[i].svc # s
               /\ (Exited(l) /\ (l.key[s] = "None" \/ l.readyof[s] = "false")) =>
                     l.exitcode = 1

\* C7 witness: a run has ended in which one service had no API key and another
\* never became ready.
C7_Witness ==
    LET l == orch[1]
    IN  /\ Exited(l) /\ ~l.dry_run
        /\ l.key["Sonarr"] = "None"
        /\ l.readyof["Radarr"] = "false"
        /\ l.result["Prowlarr"] = "true"
        /\ l.exitcode = 1

\* the services --app selects among the first n of the fixed order
SelectedFirst(app, n) ==
    SelectSeq(SubSeq(<<"Sonarr", "Radarr", "Prowlarr">>, 1, n),
              LAMBDA s : app = "all"
                           \/ (app = "sonarr" /\ s = "Sonarr")
                           \/ (app = "radarr" /\ s = "Radarr")
                           \/ (app = "prowlarr" /\ s = "Prowlarr"))

\* C9: the services are processed one after the other in the order Sonarr,
\* Radarr, Prowlarr; at most one request is in flight and it is for the service
\* being configured; when the run ends every selected service has been
\* attempted exactly once, whatever the outcome of the services before it.
C9_SequentialEveryServiceOnce ==
    \A p \in active :
        LET l == orch[p]
        IN  l.pc \in {"main", "probe", "sleep", "get", "post", "exited"} =>
               /\ Cardinality(l.inflight) <= 1
               /\ \A req \in l.inflight : req.svc = l.name
               /\ l.pc \in {"probe", "sleep", "get", "post"} =>
                     /\ l.caller = "main" => l.attempts = SelectedFirst(l.app, l.idx)
                     /\ Cardinality(l.inflight) = IF l.pc = "sleep" THEN 0 ELSE 1
               /\ l.pc = "main" =>
                     /\ l.attempts = SelectedFirst(l.app, l.idx - 1)
                     /\ l.inflight = {}
               /\ Exited(l) =>
                     /\ l.attempts = SelectedFirst(l.app, 3)
                     /\ \A i \in 1..Len(l.attempts) : l.result[l.attempts[i]] # "none"
                     /\ l.inflight = {}

\* C9 witness: a run of all services has ended in which the first service was
\* skipped for its key, the second timed out, and the third was still probed.
C9_Witness ==
    LET l == orch[1]
    IN  /\ Exited(l) /\ l.app = "all"
        /\ l.path["Sonarr"] = "nokey"
        /\ l.path["Radarr"] = "notready"
        /\ l.path["Prowlarr"] = "manual"
        /\ l.attempts = <<"Sonarr", "Radarr", "Prowlarr">>

\* what holds of a wait_for_ready call in every state
C8_State(l) ==
    /\ l.ready = "true" => (l.pc = "off" /\ l.n200 = 1 /\ l.last = "200")
    /\ l.n200 >= 1 => l.ready = "true"
    /\ l.ready = "false" =>
          (l.pc = "off" /\ l.n200 = 0 /\ l.elapsed >= l.timeout /\ l.last # "200")
    /\ l.pc = "sleep" => (l.last \in {"503", "exception"} /\ l.ready = "none")
    /\ l.pc = "probe" => l.ready = "none"

\* what holds of every step of a wait_for_ready call, from local state l to m
C8_Step(l, m) ==
    /\ (l.pc = "probe" /\ m.last = "200") =>
          (m.ready = "true" /\ m.pc = "off" /\ m.nprobes = l.nprobes)
    /\ (l.pc = "probe" /\ m.last # "200") =>
          (m.pc = "sleep" /\ m.nprobes = l.nprobes /\ m.inflight = {})
    /\ l.pc = "sleep" =>
          /\ m.elapsed = l.elapsed + 2
          /\ m.elapsed < m.timeout =>
                (m.pc = "probe" /\ m.nprobes = l.nprobes + 1 /\ m.ready = "none")
          /\ m.elapsed >= m.timeout => (m.pc = "off" /\ m.ready = "false")
    /\ (l.ready # "none" /\ m.ninv = l.ninv) => m = l

\* C8: wait_for_ready returns True on the first probe answered with HTTP 200 and
\* sends no probe after it; it returns False only when the timeout has elapsed
\* and no probe was answered with 200; a probe that raised or was answered with
\* another status is followed by a wait of 2 time units and, while time
\* remains, by another probe.
C8_WaitForReady ==
    /\ [](\A p \in active : C8_State(orch[p]))
    /\ [][\A p \in active : C8_Step(orch[p], orch'[p])]_vars

\* C8 witness: with the default timeout the first probe failed and the second
\* was answered with 200, so the call returned True after two probes.
C8_Witness ==
    LET l == orch[1]
    IN  /\ l.timeout = 60 /\ l.ready = "true" /\ l.nprobes = 2
        /\ l.elapsed >= 2

\* C10: the relay answers every POST with HTTP 200, whether or not the body
\* decoded as JSON and whether or not the alert command succeeded.
C10_AlwaysResponds200 ==
    hook.pc # "idle" => hook.status = 200

\* member k of the JSON object d is an object whose title is a string
\* (any string, or a non-empty one)
HasTitle(d, k, nonempty) ==
    /\ k \in DOMAIN d.f
    /\ d.f[k].t = "obj"
    /\ "title" \in DOMAIN d.f[k].f
    /\ d.f[k].f["title"].t = "str"
    /\ nonempty => d.f[k].f["title"].s # ""

\* the title C11 names for the JSON object d, under either reading of "present"
PreferredTitle(d, nonempty) ==
    IF HasTitle(d, "series", nonempty) THEN d.f["series"].f["title"].s
    ELSE IF HasTitle(d, "movie", nonempty) THEN d.f["movie"].f["title"].s
    ELSE "Unknown"

\* C11: for every JSON object body the relay makes exactly one alert invocation,
\* whose message is "<title> is ready to watch!" with the series title when one
\* is present, otherwise the movie title when one is present, otherwise Unknown.
C11_TitlePreference ==
    (hook.pc # "idle" /\ hook.body.wellformed /\ hook.body.value.t = "obj") =>
        /\ Len(hook.alerts) = 1
        /\ \E nonempty \in BOOLEAN :
              hook.alerts[1].message =
                 <<PreferredTitle(hook.body.value, nonempty), " is ready to watch!">>

\* the resource each operation creates for service s, written out
FullBody(op, s) ==
    CASE op = "add_download_client" ->
            [name |-> "RdtClient", host |-> "rdtclient", port |-> 6500,
             category |-> IF s = "Sonarr" THEN "sonarr" ELSE "radarr",
             implementation |-> "QBittorrent"]
      [] op = "add_root_folder" -> [path |-> TargetPath(s)]
      [] op = "add_remote_path_mapping" ->
            [host |-> "rdtclient", remotePath |-> "/data/downloads",
             localPath |-> "/data/downloads"]

\* the endpoint of each operation, written out
EndpointName(op) ==
    CASE op = "add_download_client" -> "downloadclient"
      [] op = "add_root_folder" -> "rootfolder"
      [] op = "add_remote_path_mapping" -> "remotePathMapping"

\* C12: in each ensure-present operation a failed fetch of the collection is
\* treated like "not found": the operation does not return at that point, it
\* sends one creation POST with the full resource body, and what it returns is
\* decided by the POST alone.
C12_FailedFetchThenPost ==
    \A p \in active :
        LET l == orch[p]
        IN  (l.op # "none" /\ l.getres = "failed") =>
               /\ l.pc = "post" \/ Returned(l, l.op)
               /\ Posts(l.sent) =
                     <<[svc |-> l.name, method |-> "POST",
                        endpoint |-> EndpointName(l.op),
                        body |-> FullBody(l.op, l.name)]>>
               /\ l.pc = "post" => (l.opret = "none" /\ l.postres = "none")
               /\ Returned(l, l.op) =>
                     /\ l.postres # "none"
                     /\ l.opret = IF l.postres = "created" THEN "true" ELSE "false"

\* C12 witness: the fetch failed although the service already held a matching
\* mapping, the POST was sent and accepted, and the operation returned True.
C12_Witness ==
    LET l == orch[1]
    IN  /\ Returned(l, "add_remote_path_mapping")
        /\ l.getres = "failed" /\ l.postres = "created" /\ l.opret = "true"
        /\ \E i \in 1..Len(l.pre) : l.pre[i].host = "rdtclient"
        /\ Len(store[l.name]["remotePathMapping"]) = Len(l.pre) + 1

\* C13: an ensure-present operation that sent its creation POST returns True
\* exactly when the service created the resource (HTTP 2xx), whatever body came
\* with the 2xx, an empty object or list included.
C13_SuccessIffCreated ==
    \A p \in active :
        LET l == orch[p]
        IN  (l.op # "none" /\ Returned(l, l.op) /\ l.postres # "none") =>
               (l.opret = "true" <=> l.postres \in {"created", "created_empty"})

\* the fixed order of the three operations
OpOrder == <<"add_download_client", "add_root_folder", "add_remote_path_mapping">>

\* what holds of the operations of a configure_* call in every state
C14_State(l) ==
    /\ Len(l.opres) <= 3
    /\ \A i \in 1..Len(l.opres) : l.opres[i].op = OpOrder[i]
    /\ \A i, j \in 1..Len(l.opres) : l.opres[i].svc = l.opres[j].svc
    /\ (l.caller = "main" /\ l.pc \in {"get", "post"}) =>
          /\ Len(l.opres) < 3
          /\ l.op = OpOrder[Len(l.opres) + 1]
          /\ \A i \in 1..Len(l.opres) : l.opres[i].svc = l.name
          /\ l.name \in {"Sonarr", "Radarr"}
          /\ l.readyof[l.name] = "true"
          /\ ~l.dry_run
    /\ \A s \in {"Sonarr", "Radarr"} :
          (l.result[s] # "none" /\ l.readyof[s] = "true" /\ ~l.dry_run) =>
             (l.path[s] = "configured" /\ l.result[s] = "true")

\* what holds of every step of main(), from local state l to m
C14_Step(l, m) ==
    /\ \A s \in Services :
          (l.path[s] # "configured" /\ m.path[s] = "configured") =>
             /\ Len(m.opres) = 3
             /\ \A i \in 1..3 : m.opres[i].svc = s /\ m.opres[i].op = OpOrder[i]
             /\ SelectSeq(m.sent, LAMBDA r : r.method = "GET") =
                   <<[svc |-> s, method |-> "GET", endpoint |-> "downloadclient",
                      body |-> None],
                     [svc |-> s, method |-> "GET", endpoint |-> "rootfolder",
                      body |-> None],
                     [svc |-> s, method |-> "GET", endpoint |-> "remotePathMapping",
                      body |-> None]>>
    /\ (l.caller = "main" /\ l.pc \in {"get", "post"}
          /\ Len(m.opres) = Len(l.opres) + 1 /\ Len(m.opres) < 3) =>
             (m.pc = "get" /\ m.op = OpOrder[Len(m.opres) + 1] /\ m.name = l.name)

\* C14: in a run that is not a dry run, once Sonarr or Radarr is ready the three
\* ensure-present operations are each called exactly once, in the order download
\* client, root folder, remote path mapping, and a later one is called also
\* when an earlier one returned False.
C14_ThreeOperationsInOrder ==
    /\ [](\A p \in active : C14_State(orch[p]))
    /\ [][\A p \in active : C14_Step(orch[p], orch'[p])]_vars

\* C14 witness: configure_sonarr has returned after all three operations, the
\* first two of which returned False.
C14_Witness ==
    LET l == orch[1]
    IN  /\ l.pc = "main" /\ l.path["Sonarr"] = "configured"
        /\ Len(l.opres) = 3
        /\ l.opres[1].svc = "Sonarr"
        /\ ~l.opres[1].ret /\ ~l.opres[2].ret /\ l.opres[3].ret

\* the collection held in the local `existing` has an entry with the key the
\* operation looks for
Hit(l) ==
    /\ l.existing.kind = "data"
    /\ \E i \in 1..Len(l.existing.data) :
          KeyOf(EndpointName(l.op), l.existing.data[i]) =
             KeyOf(EndpointName(l.op), FullBody(l.op, l.name))

\* C15: two orchestrators running at once against the same service each decide
\* on the collection their own GET returned and on nothing else: one that saw
\* no entry with its key sends its POST whatever the other has created since,
\* one that saw such an entry sends none, so both can create the same key.
C15_CreateDecidedByOwnCheck ==
    \A p \in active :
        LET l == orch[p]
        IN  (l.op # "none" /\ l.getres = "ok") =>
               /\ l.pc = "post" \/ Returned(l, l.op)
               /\ Hit(l) => (Posts(l.sent) = <<>> /\ l.opret = "true")
               /\ ~Hit(l) =>
                     /\ Posts(l.sent) =
                           <<[svc |-> l.name, method |-> "POST",
                              endpoint |-> EndpointName(l.op),
                              body |-> FullBody(l.op, l.name)]>>
                     /\ l.pc = "post" => l.inflight = {Posts(l.sent)[1]}

\* C15 witness: both orchestrators ran add_root_folder for Sonarr, the GET of
\* each succeeded and showed no /tv, both POSTs created it: two /tv entries.
C15_Witness ==
    /\ \A p \in Procs :
          /\ Returned(orch[p], "add_root_folder")
          /\ orch[p].name = "Sonarr"
          /\ orch[p].getres = "ok" /\ ~Hit(orch[p])
          /\ orch[p].postres = "created" /\ orch[p].opret = "true"
    /\ \E i, j \in 1..Len(store["Sonarr"]["rootfolder"]) :
          /\ i # j
          /\ store["Sonarr"]["rootfolder"][i].path = "/tv"
          /\ store["Sonarr"]["rootfolder"][j].path = "/tv"
    /\ \E i, j \in 1..Len(created) : i # j /\ created[i] = created[j]

\* ceil(t / 2) for a timeout t, 0 when t is 0 or less
HalfUp(t) == IF t <= 0 THEN 0 ELSE (t + 1) \div 2

\* what holds of a wait_for_ready call in every state
C16_State(l) ==
    /\ l.pc = "probe" => l.elapsed < l.timeout
    /\ l.nprobes >= 1 => SLEEP_INTERVAL * (l.nprobes - 1) <= l.elapsed
    /\ l.nprobes <= HalfUp(l.timeout)
    /\ l.timeout = DEFAULT_TIMEOUT => l.nprobes <= 30
    /\ (l.ninv >= 1 /\ l.timeout <= 0) =>
          (l.nprobes = 0 /\ l.pc = "off" /\ l.ready = "false")
    /\ (l.ninv >= 1 /\ l.pc = "off") => l.ready = Str(l.n200 >= 1)

\* C16: wait_for_ready(timeout) returns whatever the service answers; it starts
\* no probe once the elapsed time has reached the timeout, sends at most
\* ceil(timeout/2) probes (30 for the default 60) since 2 time units pass
\* after each unsuccessful one, returns False when none was answered with 200,
\* and with a timeout of 0 or less sends no probe and returns False.
C16_TerminatesWithinBudget ==
    /\ [](\A p \in active : C16_State(orch[p]))
    /\ \A p \in Procs : (orch[p].pc \in {"probe", "sleep"}) ~> (orch[p].pc = "off")

\* C16 witness: with the default timeout every probe was answered at once and
\* none with 200: the call returned False after its 30th probe.
C16_Witness ==
    LET l == orch[1]
    IN  /\ l.pc = "off" /\ l.timeout = DEFAULT_TIMEOUT /\ l.ready = "false"
        /\ l.nprobes = 30 /\ l.n200 = 0

\* the requests a process has sent or has in flight are GETs and POSTs
C17_State(l) ==
    /\ \A i \in 1..Len(l.sent) : l.sent[i].method \in {"GET", "POST"}
    /\ \A req \in l.inflight : req.method \in {"GET", "POST"}
    /\ l.pc = "post" =>
          \A req \in l.inflight : req.body = FullBody(l.op, l.name)

\* every entry a collection holds stays where and what it is
C17_Kept ==
    \A s \in Services, e \in Endpoints :
        /\ Len(store'[s][e]) >= Len(store[s][e])
        /\ \A i \in 1..Len(store[s][e]) : store'[s][e][i] = store[s][e][i]

\* an operation that finds its key returns without sending anything more
C17_FoundLeftAlone(l, m) ==
    (l.pc = "get" /\ m.getres = "ok" /\ Hit(m)) =>
        (m.pc # "post" /\ m.sent = l.sent /\ store' = store)

\* C17: a run sends GETs and POSTs only, never a PUT: every entry a service
\* holds is left unchanged and in place, the collections grow by appended
\* entries only, and a mapping whose host is the target host is left as it is
\* whatever its paths are.
C17_ExistingEntriesUntouched ==
    /\ [](\A p \in active : C17_State(orch[p]))
    /\ [][C17_Kept /\ \A p \in active : C17_FoundLeftAlone(orch[p], orch'[p])]_vars

\* C17 witness: a run that configured Sonarr and Radarr has exited and the
\* mapping for host rdtclient still has its old paths, as the only mapping for
\* that host.
C17_Witness ==
    LET l == orch[1]
    IN  /\ l.pc = "exited"
        /\ l.path["Sonarr"] = "configured" /\ l.path["Radarr"] = "configured"
        /\ l.result["Sonarr"] = "true"
        /\ store["Sonarr"]["remotePathMapping"] = <<OtherMapping, StaleMapping>>
        /\ StaleMapping.remotePath # FullBody("add_remote_path_mapping", "Sonarr").remotePath
        /\ Len(store["Sonarr"]["downloadclient"]) > 0

====
